---- MODULE Spec2Model ----
(***************************************************************************)
(* The NEAR chain client of the hapi-core indexer (fetch_near_jobs and     *)
(* process_near_job of indexer/src/indexer/client/near.rs) driven by the   *)
(* per-network indexing loop  Fetching -> Resolving -> Sending ->          *)
(* Persisting  of the design document.                                     *)
(***************************************************************************)
EXTENDS Integers, Sequences, FiniteSets, TLC

VARIABLES
    overflow_checks,  \* build profile: TRUE = arithmetic overflow panics, FALSE = it wraps
    pc,               \* state of the indexing loop
    cursor,           \* the cursor the loop holds (passed to the next fetch)
    persisted,        \* the cursor in the Cursor Store
    fetched,          \* outcome of the latest fetch_near_jobs call
    next_job,         \* index in fetched.jobs of the next job to resolve
    batch,            \* payloads resolved from the jobs of the latest pass
    send_idx,         \* index in batch of the next payload to send
    acked,            \* indices of batch acknowledged (2xx) by the Push Sink
    send_failed,      \* whether a send of the current batch has failed
    passes,           \* number of passes whose cursor was persisted
    prev_queried,     \* heights queried by the persisted passes (the chain of passes)
    prev_max_job,     \* greatest job height of the persisted passes, -1 when none
    last_clean,       \* the previous failure-free fetch made with the cursor now held
    resolved,         \* the latest process_near_job call while the pass is being resolved
    outcomes,         \* how each process_near_job call of the current pass ended, in order
    save_failures,    \* failed saves of the Cursor Store since the latest fetch
    entity_version    \* version of the contract's entities on the chain (grows as they change)

vars == << overflow_checks, pc, cursor, persisted, fetched, next_job, batch,
           send_idx, acked, send_failed, passes, prev_queried, prev_max_job, last_clean,
           resolved, outcomes, save_failures, entity_version >>

---------------------------------------------------------------------------
(* Bounds and constants *)

NEAR_PAGE_SIZE == 600

\* u64 is modelled with WordBits bits
WordBits == 16

U64Modulus == 2 ^ WordBits

\* number of passes persisted in one run
MaxPasses == 2

\* failed saves of one cursor
MaxSaveFailures == 2

\* changes of the contract's entities in one run
MaxVersion == 2

\* heights the "latest finalized block" query may report
Heads == {50, 600, 700, 1300}

\* heights whose change-set query may fail, and whose header query may fail
FlakyChanges == {60, 600}

FlakyHeaders == {60}

Min(S) == CHOOSE x \in S : \A y \in S : x <= y

Max(S) == CHOOSE x \in S : \A y \in S : x >= y

min(a, b) == IF a <= b THEN a ELSE b

---------------------------------------------------------------------------
(* Cursors *)

NoneCursor == [tag |-> "None"]

Block(h) == [tag |-> "Block", height |-> h]

\* Option<u64>::unwrap_or_default
UnwrapOrDefault(c) == IF c.tag = "Block" THEN c.height ELSE 0

---------------------------------------------------------------------------
(* The chain as the RPC node reports it *)

\* CryptoHash::default()
DefaultHash == "11111111111111111111111111111111"

ReceiptCause(h) == [cause |-> "ReceiptProcessing", hash |-> h]

TxCause(h) == [cause |-> "TransactionProcessing", hash |-> h]

OtherCause(c) == [cause |-> c, hash |-> ""]

\* the blocks in which the watched contract's state changed, with their DataChanges
ContractChanges ==
    [height \in {60, 599, 600, 700, 1100} |->
        CASE height = 60   -> << ReceiptCause("rA"), ReceiptCause("rA"), ReceiptCause("rB") >>
          [] height = 599  -> << TxCause("tC") >>
          [] height = 600  -> << ReceiptCause("rD"), OtherCause("Migration") >>
          [] height = 700  -> << ReceiptCause("rF") >>
          [] height = 1100 -> << ReceiptCause("rE") >>]

ChangedBlocks == DOMAIN ContractChanges

\* the answer of the node to RpcStateChangesInBlockByTypeRequest for a height
StateChangesAt(height) ==
    IF height \in ChangedBlocks THEN ContractChanges[height] ELSE << >>

\* header.timestamp_nanosec of the block at a height
TimestampNanosec(height) == 1000 * height + 7

---------------------------------------------------------------------------
(* fetch_near_jobs *)

get_hash_from_cause(cause) ==
    CASE cause.cause = "TransactionProcessing" -> cause.hash
      [] cause.cause = "ReceiptProcessing"     -> cause.hash
      [] OTHER                                 -> DefaultHash

\* the HashSet<CryptoHash> collected from a block's changes
HashSetOf(changes) == {get_hash_from_cause(changes[i]) : i \in 1..Len(changes)}

\* the orders in which a HashSet may be iterated (RandomState: any order)
IterOrders(S) ==
    {s \in [1..Cardinality(S) -> S] : \A i, j \in 1..Cardinality(S) : s[i] = s[j] => i = j}

\* one iteration order for every block that has changes
AllIterOrders ==
    {f \in [ChangedBlocks -> UNION {IterOrders(HashSetOf(StateChangesAt(b))) : b \in ChangedBlocks}] :
        \A b \in ChangedBlocks : f[b] \in IterOrders(HashSetOf(StateChangesAt(b)))}

NearReceipt(hash, block_height, timestamp) ==
    [hash |-> hash, block_height |-> block_height, timestamp |-> timestamp]

\* mutant: the hashes are collected in a Vec, one job for every state change
BlockJobsPerChange(block_height, order) ==
    [i \in 1..Len(StateChangesAt(block_height)) |->
        NearReceipt(get_hash_from_cause(StateChangesAt(block_height)[i]), block_height,
                    TimestampNanosec(block_height))]

\* the jobs pushed for one block, in the iteration order of its hash set
BlockJobs(block_height, order) ==
    [i \in 1..Len(order) |->
        NearReceipt(order[i], block_height, TimestampNanosec(block_height))]

\* u64 subtraction: ok = FALSE when it overflows, value = the wrapped result
U64Sub(a, b) == [ok |-> a >= b, value |-> (a - b) % U64Modulus]

U64Add(a, b) == [ok |-> a + b < U64Modulus, value |-> (a + b) % U64Modulus]

\* mutant: the loop without its break
LoopBlocksNoBreak(start_block_height, final_block) == start_block_height .. final_block

\* mutant: the break comes one iteration early
LoopBlocksEarlyBreak(start_block_height, final_block) ==
    start_block_height .. min(final_block, start_block_height + NEAR_PAGE_SIZE - 2)

\* the iterations of  for block_height in start..final_block + 1  that run before the
\* break at  block_height - start_block_height >= NEAR_PAGE_SIZE
LoopBlocks(start_block_height, final_block) ==
    start_block_height .. min(final_block, start_block_height + NEAR_PAGE_SIZE - 1)

\* the iterations whose change-set query succeeds with a non-empty result
BlocksWithChanges(blocks, rpc) ==
    {b \in ChangedBlocks : b \in blocks /\ b \notin rpc.failChanges /\ StateChangesAt(b) # << >>}

FetchResult(status, jobs, c, queried, headers) ==
    [status |-> status, jobs |-> jobs, cursor |-> c, queried |-> queried, headers |-> headers]

\* mutant: the jobs of a block are put in front of event_list
RECURSIVE FetchLoopPrepend(_, _, _, _, _, _)
FetchLoopPrepend(todo, event_list, headers, blocks, final_block, rpc) ==
    IF todo = {}
    THEN FetchResult("Ok", event_list, Block(final_block), blocks, headers)
    ELSE LET block_height == Min(todo) IN
         IF block_height \in rpc.failHeader
         THEN FetchResult("Err", << >>, NoneCursor,
                          {b \in blocks : b <= block_height}, headers \cup {block_height})
         ELSE FetchLoopPrepend(todo \ {block_height},
                               BlockJobs(block_height, rpc.iter[block_height]) \o event_list,
                               headers \cup {block_height}, blocks, final_block, rpc)

\* The for loop, from one block with changes to the next: the iterations in
\* between query the change-set and leave event_list as it is.
RECURSIVE FetchLoop(_, _, _, _, _, _)
FetchLoop(todo, event_list, headers, blocks, final_block, rpc) ==
    IF todo = {}
    THEN FetchResult("Ok", event_list, Block(final_block), blocks, headers)
    ELSE LET block_height == Min(todo) IN
         IF block_height \in rpc.failHeader
         THEN FetchResult("Err", << >>, NoneCursor,
                          {b \in blocks : b <= block_height}, headers \cup {block_height})
         ELSE FetchLoop(todo \ {block_height},
                        event_list \o BlockJobs(block_height, rpc.iter[block_height]),
                        headers \cup {block_height}, blocks, final_block, rpc)

\* mutant: a failed query is taken as height 0 instead of being returned
LatestBlockOrDefault(rpc) == [ok |-> TRUE, height |-> rpc.latest]

\* the answer to the block request with Finality::Final, and its header.height
LatestBlock(rpc) == [ok |-> rpc.latestOk, height |-> rpc.latest]

\* mutant: the window end taken as min(latest_block, start_block_height + NEAR_PAGE_SIZE)
FinalBlockMinLatest(start_block_height, latest_block) ==
    [ok |-> TRUE, value |-> min(latest_block, start_block_height + NEAR_PAGE_SIZE)]

\* mutant: the page counted from 0, one block short
FinalBlockShortPage(start_block_height, latest_block) ==
    LET diff == U64Sub(latest_block, start_block_height)
        sum == U64Add(start_block_height, min(NEAR_PAGE_SIZE - 1, diff.value))
    IN  [ok |-> diff.ok /\ sum.ok, value |-> sum.value]

\* start_block_height + min(NEAR_PAGE_SIZE, latest_block - start_block_height) in u64
FinalBlock(start_block_height, latest_block) ==
    LET diff == U64Sub(latest_block, start_block_height)
        sum == U64Add(start_block_height, min(NEAR_PAGE_SIZE, diff.value))
    IN  [ok |-> diff.ok /\ sum.ok, value |-> sum.value]

FetchNearJobs(current_cursor, rpc, checks) ==
    LET start_block_height == UnwrapOrDefault(current_cursor)
        latest_block == LatestBlock(rpc)
        final_block == FinalBlock(start_block_height, latest_block.height)
        blocks == LoopBlocks(start_block_height, final_block.value)
    IN  IF ~latest_block.ok
        THEN FetchResult("Err", << >>, NoneCursor, {}, {})
        ELSE IF checks /\ ~final_block.ok
        THEN FetchResult("Panic", << >>, NoneCursor, {}, {})
        ELSE IF start_block_height = final_block.value
        THEN FetchResult("Ok", << >>, Block(start_block_height), {}, {})
        ELSE FetchLoop(BlocksWithChanges(blocks, rpc), << >>, {}, blocks,
                       final_block.value, rpc)

---------------------------------------------------------------------------
(* process_near_job *)

StrArg(s) == [type |-> "string", value |-> s]

\* the serde_json::Value the args of a call parse into; valid = FALSE when they are not JSON
Json(fields) == [valid |-> TRUE, fields |-> fields]

FunctionCall(method_name, args) == [action |-> "FunctionCall", method_name |-> method_name, args |-> args]

ActionReceipt(actions) == [found |-> TRUE, receipt |-> "Action", actions |-> actions]

UnknownReceipt == [found |-> FALSE, receipt |-> "", actions |-> << >>]

DataReceipt == [found |-> TRUE, receipt |-> "Data", actions |-> << >>]

\* a JSON number, by its literal
NumArg(n) == [type |-> "number", value |-> n]

\* a JSON object without members
NoFields == [f \in {} |-> StrArg("")]

\* args that are not JSON at all
NotJson == [valid |-> FALSE, fields |-> NoFields]

Transfer == [action |-> "Transfer", method_name |-> "", args |-> NotJson]

\* method names a receipt of the contract may call: the contract's events, the token
\* callback, and methods that are no event
Methods ==
    {"initialize", "set_authority", "update_stake_configuration", "update_reward_configuration",
     "create_reporter", "update_reporter", "activate_reporter", "deactivate_reporter", "unstake",
     "create_case", "update_case", "create_address", "update_address", "confirm_address",
     "create_asset", "update_asset", "confirm_asset",
     "ft_on_transfer", "storage_deposit", "CreateReporter"}

ArgShapes == {"good", "notjson", "empty", "nonstring", "badid"}

\* the args of a call, by shape
ArgsOf(shape) ==
    CASE shape = "good"      -> Json([id |-> StrArg("7"), address |-> StrArg("mallory.near"),
                                      sender_id |-> StrArg("alice.near")])
      [] shape = "notjson"   -> NotJson
      [] shape = "empty"     -> Json(NoFields)
      [] shape = "nonstring" -> Json([id |-> NumArg("7"), address |-> NumArg("7"),
                                      sender_id |-> NumArg("7")])
      [] shape = "badid"     -> Json([id |-> StrArg("0x7"), address |-> StrArg("mallory.near"),
                                      sender_id |-> StrArg("alice.near")])

\* receipts the node may hold beyond those of ContractChanges, each under its hash
Catalogue ==
    {[hash |-> m \o "/" \o shape,
      view |-> ActionReceipt(<< FunctionCall(m, ArgsOf(shape)) >>)] :
        m \in Methods, shape \in ArgShapes}
    \cup {[hash |-> "data", view |-> DataReceipt],
          [hash |-> "no-actions", view |-> ActionReceipt(<< >>)],
          [hash |-> "transfer", view |-> ActionReceipt(<< Transfer >>)],
          [hash |-> "transfer,call",
           view |-> ActionReceipt(<< Transfer, FunctionCall("create_reporter", ArgsOf("good")) >>)],
          [hash |-> "call,call",
           view |-> ActionReceipt(<< FunctionCall("create_case", ArgsOf("good")),
                                     FunctionCall("create_reporter", ArgsOf("good")) >>)]}

CatalogueView(hash) ==
    LET held == {c \in Catalogue : c.hash = hash}
    IN  IF held = {} THEN UnknownReceipt ELSE (CHOOSE c \in held : TRUE).view

\* the answer of the node to RpcReceiptRequest for a hash
ReceiptViewOf(hash) ==
    CASE hash = "rA" -> ActionReceipt(<< FunctionCall("create_reporter", Json([id |-> StrArg("7")])) >>)
      [] hash = "rB" -> ActionReceipt(<< FunctionCall("ft_on_transfer",
                                         Json([sender_id |-> StrArg("alice.near")])) >>)
      [] hash = "rD" -> ActionReceipt(<< FunctionCall("update_case", Json([id |-> StrArg("12")])) >>)
      [] hash = "rF" -> ActionReceipt(<< FunctionCall("create_address",
                                         Json([address |-> StrArg("mallory.near")])) >>)
      [] hash = "rE" -> ActionReceipt(<< FunctionCall("storage_deposit", Json([id |-> StrArg("7")])) >>)
      [] OTHER       -> CatalogueView(hash)

\* <EventName as FromStr>::from_str on a method name
ParseEventName(method) ==
    CASE method = "initialize"                  -> [ok |-> TRUE, name |-> "Initialize"]
      [] method = "set_authority"               -> [ok |-> TRUE, name |-> "SetAuthority"]
      [] method = "update_stake_configuration"  -> [ok |-> TRUE, name |-> "UpdateStakeConfiguration"]
      [] method = "update_reward_configuration" -> [ok |-> TRUE, name |-> "UpdateRewardConfiguration"]
      [] method = "create_reporter"             -> [ok |-> TRUE, name |-> "CreateReporter"]
      [] method = "update_reporter"             -> [ok |-> TRUE, name |-> "UpdateReporter"]
      [] method = "activate_reporter"           -> [ok |-> TRUE, name |-> "ActivateReporter"]
      [] method = "deactivate_reporter"         -> [ok |-> TRUE, name |-> "DeactivateReporter"]
      [] method = "unstake"                     -> [ok |-> TRUE, name |-> "Unstake"]
      [] method = "create_case"                 -> [ok |-> TRUE, name |-> "CreateCase"]
      [] method = "update_case"                 -> [ok |-> TRUE, name |-> "UpdateCase"]
      [] method = "create_address"              -> [ok |-> TRUE, name |-> "CreateAddress"]
      [] method = "update_address"              -> [ok |-> TRUE, name |-> "UpdateAddress"]
      [] method = "confirm_address"             -> [ok |-> TRUE, name |-> "ConfirmAddress"]
      [] method = "create_asset"                -> [ok |-> TRUE, name |-> "CreateAsset"]
      [] method = "update_asset"                -> [ok |-> TRUE, name |-> "UpdateAsset"]
      [] method = "confirm_asset"               -> [ok |-> TRUE, name |-> "ConfirmAsset"]
      [] OTHER                                  -> [ok |-> FALSE, name |-> ""]

\* str::parse::<u128>: the decimal strings of the modelled chain
ParseU128(s) ==
    CASE s = "7"  -> [ok |-> TRUE, value |-> 7]
      [] s = "12" -> [ok |-> TRUE, value |-> 12]
      [] OTHER    -> [ok |-> FALSE, value |-> 0]

\* Uuid::from_u128(n).to_string()
UuidString(n) ==
    CASE n = 7  -> "00000000-0000-0000-0000-000000000007"
      [] n = 12 -> "00000000-0000-0000-0000-00000000000c"
      [] OTHER  -> "00000000-0000-0000-0000-000000000000"

\* Some((method, args)) of the first action when it is a function call
get_method_from_receipt(view) ==
    IF view.receipt = "Action"
    THEN IF Len(view.actions) = 0
         THEN [tag |-> "Panic", method |-> "", args |-> Json(<< >>)]
         ELSE IF view.actions[1].action = "FunctionCall"
         THEN [tag |-> "Some", method |-> view.actions[1].method_name, args |-> view.actions[1].args]
         ELSE [tag |-> "None", method |-> "", args |-> Json(<< >>)]
    ELSE [tag |-> "None", method |-> "", args |-> Json(<< >>)]

get_field_from_args(args, field) ==
    IF args.valid /\ field \in DOMAIN args.fields /\ args.fields[field].type = "string"
    THEN [ok |-> TRUE, value |-> args.fields[field].value]
    ELSE [ok |-> FALSE, value |-> ""]

get_id_from_args(args) ==
    LET id == get_field_from_args(args, "id") IN
    IF id.ok /\ ParseU128(id.value).ok
    THEN [ok |-> TRUE, value |-> UuidString(ParseU128(id.value).value)]
    ELSE [ok |-> FALSE, value |-> ""]

ResolveResult(status, value, queries) == [status |-> status, value |-> value, queries |-> queries]

NoPayload == << >>

\* CryptoHash::to_string: the base58 text of the hash
HashToString(hash) == [base58 |-> hash]

\* mutant: the payload is stamped with the height of the block
PushPayloadHeight(event_name, receipt, data) ==
    [event |-> [name |-> event_name, tx_hash |-> HashToString(receipt.hash), tx_index |-> 0,
                timestamp |-> receipt.block_height],
     data |-> data]

PushPayload(event_name, receipt, data) ==
    [event |-> [name |-> event_name, tx_hash |-> HashToString(receipt.hash), tx_index |-> 0,
                timestamp |-> receipt.timestamp],
     data |-> data]

\* mutant: the entity is answered from a copy taken when the process started
EntityQueryCached(kind, by, key, rpc) ==
    [ok |-> rpc.entityOk,
     query |-> [kind |-> kind, by |-> by, key |-> key],
     data |-> [kind |-> kind, key |-> key, version |-> 0]]

\* one entity query of the client: Err when the node fails it; the answer is the
\* entity as it is on the chain when the query is made
EntityQuery(kind, by, key, rpc) ==
    [ok |-> rpc.entityOk,
     query |-> [kind |-> kind, by |-> by, key |-> key],
     data |-> [kind |-> kind, key |-> key, version |-> rpc.version]]

\* mutant: the confirmations are resolved like the other events of their entity
ResolveDataConfirmations(event_name, args, rpc) ==
    CASE event_name \in {"CreateReporter", "UpdateReporter", "DeactivateReporter", "Unstake"} ->
            LET id == get_id_from_args(args) IN
            IF id.ok THEN [tag |-> "Query", q |-> EntityQuery("Reporter", "id", id.value, rpc)]
            ELSE [tag |-> "Err"]
      [] event_name = "ActivateReporter" ->
            LET account_id == get_field_from_args(args, "sender_id") IN
            IF account_id.ok
            THEN [tag |-> "Query", q |-> EntityQuery("Reporter", "account", account_id.value, rpc)]
            ELSE [tag |-> "Err"]
      [] event_name \in {"CreateCase", "UpdateCase"} ->
            LET id == get_id_from_args(args) IN
            IF id.ok THEN [tag |-> "Query", q |-> EntityQuery("Case", "id", id.value, rpc)]
            ELSE [tag |-> "Err"]
      [] event_name \in {"CreateAddress", "UpdateAddress", "ConfirmAddress"} ->
            LET address == get_field_from_args(args, "address") IN
            IF address.ok
            THEN [tag |-> "Query", q |-> EntityQuery("Address", "address", address.value, rpc)]
            ELSE [tag |-> "Err"]
      [] event_name \in {"CreateAsset", "UpdateAsset", "ConfirmAsset"} ->
            LET addr == get_field_from_args(args, "address")
                asset_id == get_field_from_args(args, "id")
            IN  IF addr.ok /\ asset_id.ok /\ ParseU128(asset_id.value).ok
                THEN [tag |-> "Query",
                      q |-> EntityQuery("Asset", "address_id", << addr.value, asset_id.value >>, rpc)]
                ELSE [tag |-> "Err"]
      [] OTHER -> [tag |-> "None"]

\* mutant: the case events read the reporter of the same id
ResolveDataCaseAsReporter(event_name, args, rpc) ==
    CASE event_name \in {"CreateReporter", "UpdateReporter", "DeactivateReporter", "Unstake"} ->
            LET id == get_id_from_args(args) IN
            IF id.ok THEN [tag |-> "Query", q |-> EntityQuery("Reporter", "id", id.value, rpc)]
            ELSE [tag |-> "Err"]
      [] event_name = "ActivateReporter" ->
            LET account_id == get_field_from_args(args, "sender_id") IN
            IF account_id.ok
            THEN [tag |-> "Query", q |-> EntityQuery("Reporter", "account", account_id.value, rpc)]
            ELSE [tag |-> "Err"]
      [] event_name \in {"CreateCase", "UpdateCase"} ->
            LET id == get_id_from_args(args) IN
            IF id.ok THEN [tag |-> "Query", q |-> EntityQuery("Reporter", "id", id.value, rpc)]
            ELSE [tag |-> "Err"]
      [] event_name \in {"CreateAddress", "UpdateAddress"} ->
            LET address == get_field_from_args(args, "address") IN
            IF address.ok
            THEN [tag |-> "Query", q |-> EntityQuery("Address", "address", address.value, rpc)]
            ELSE [tag |-> "Err"]
      [] event_name \in {"CreateAsset", "UpdateAsset"} ->
            LET addr == get_field_from_args(args, "address")
                asset_id == get_field_from_args(args, "id")
            IN  IF addr.ok /\ asset_id.ok /\ ParseU128(asset_id.value).ok
                THEN [tag |-> "Query",
                      q |-> EntityQuery("Asset", "address_id", << addr.value, asset_id.value >>, rpc)]
                ELSE [tag |-> "Err"]
      [] OTHER -> [tag |-> "None"]

\* the match on event_name: the entity query it makes, or "None" for an event not forwarded
ResolveData(event_name, args, rpc) ==
    CASE event_name \in {"CreateReporter", "UpdateReporter", "DeactivateReporter", "Unstake"} ->
            LET id == get_id_from_args(args) IN
            IF id.ok THEN [tag |-> "Query", q |-> EntityQuery("Reporter", "id", id.value, rpc)]
            ELSE [tag |-> "Err"]
      [] event_name = "ActivateReporter" ->
            LET account_id == get_field_from_args(args, "sender_id") IN
            IF account_id.ok
            THEN [tag |-> "Query", q |-> EntityQuery("Reporter", "account", account_id.value, rpc)]
            ELSE [tag |-> "Err"]
      [] event_name \in {"CreateCase", "UpdateCase"} ->
            LET id == get_id_from_args(args) IN
            IF id.ok THEN [tag |-> "Query", q |-> EntityQuery("Case", "id", id.value, rpc)]
            ELSE [tag |-> "Err"]
      [] event_name \in {"CreateAddress", "UpdateAddress"} ->
            LET address == get_field_from_args(args, "address") IN
            IF address.ok
            THEN [tag |-> "Query", q |-> EntityQuery("Address", "address", address.value, rpc)]
            ELSE [tag |-> "Err"]
      [] event_name \in {"CreateAsset", "UpdateAsset"} ->
            LET addr == get_field_from_args(args, "address")
                asset_id == get_field_from_args(args, "id")
            IN  IF addr.ok /\ asset_id.ok /\ ParseU128(asset_id.value).ok
                THEN [tag |-> "Query",
                      q |-> EntityQuery("Asset", "address_id", << addr.value, asset_id.value >>, rpc)]
                ELSE [tag |-> "Err"]
      [] OTHER -> [tag |-> "None"]

\* mutant: a method name that is no event is an error (method.parse()?)
ResolveReceiptParseErr(receipt, receipt_view, rpc) ==
    LET call == get_method_from_receipt(receipt_view)
        event_name == IF call.method = "ft_on_transfer"
                      THEN [ok |-> TRUE, name |-> "ActivateReporter"]
                      ELSE ParseEventName(call.method)
        data == ResolveData(event_name.name, call.args, rpc)
    IN  IF ~rpc.receiptOk \/ ~receipt_view.found THEN ResolveResult("Err", NoPayload, << >>)
        ELSE IF call.tag = "Panic" THEN ResolveResult("Panic", NoPayload, << >>)
        ELSE IF call.tag = "None" THEN ResolveResult("None", NoPayload, << >>)
        ELSE IF ~event_name.ok THEN ResolveResult("Err", NoPayload, << >>)
        ELSE IF data.tag = "None" THEN ResolveResult("None", NoPayload, << >>)
        ELSE IF data.tag = "Err" THEN ResolveResult("Err", NoPayload, << >>)
        ELSE IF ~data.q.ok THEN ResolveResult("Err", NoPayload, << data.q.query >>)
        ELSE ResolveResult("Some",
                           << PushPayload(event_name.name, receipt, data.q.data) >>,
                           << data.q.query >>)

\* mutant: every method name goes through the parser, ft_on_transfer included
ResolveReceiptParseAll(receipt, receipt_view, rpc) ==
    LET call == get_method_from_receipt(receipt_view)
        event_name == ParseEventName(call.method)
        data == ResolveData(event_name.name, call.args, rpc)
    IN  IF ~rpc.receiptOk \/ ~receipt_view.found THEN ResolveResult("Err", NoPayload, << >>)
        ELSE IF call.tag = "Panic" THEN ResolveResult("Panic", NoPayload, << >>)
        ELSE IF call.tag = "None" THEN ResolveResult("None", NoPayload, << >>)
        ELSE IF ~event_name.ok THEN ResolveResult("None", NoPayload, << >>)
        ELSE IF data.tag = "None" THEN ResolveResult("None", NoPayload, << >>)
        ELSE IF data.tag = "Err" THEN ResolveResult("Err", NoPayload, << >>)
        ELSE IF ~data.q.ok THEN ResolveResult("Err", NoPayload, << data.q.query >>)
        ELSE ResolveResult("Some",
                           << PushPayload(event_name.name, receipt, data.q.data) >>,
                           << data.q.query >>)

\* the body of process_near_job once the node has answered the receipt request
ResolveReceipt(receipt, receipt_view, rpc) ==
    LET call == get_method_from_receipt(receipt_view)
        event_name == IF call.method = "ft_on_transfer"
                      THEN [ok |-> TRUE, name |-> "ActivateReporter"]
                      ELSE ParseEventName(call.method)
        data == ResolveData(event_name.name, call.args, rpc)
    IN  IF ~rpc.receiptOk \/ ~receipt_view.found THEN ResolveResult("Err", NoPayload, << >>)
        ELSE IF call.tag = "Panic" THEN ResolveResult("Panic", NoPayload, << >>)
        ELSE IF call.tag = "None" THEN ResolveResult("None", NoPayload, << >>)
        ELSE IF ~event_name.ok THEN ResolveResult("None", NoPayload, << >>)
        ELSE IF data.tag = "None" THEN ResolveResult("None", NoPayload, << >>)
        ELSE IF data.tag = "Err" THEN ResolveResult("Err", NoPayload, << >>)
        ELSE IF ~data.q.ok THEN ResolveResult("Err", NoPayload, << data.q.query >>)
        ELSE ResolveResult("Some",
                           << PushPayload(event_name.name, receipt, data.q.data) >>,
                           << data.q.query >>)

ProcessNearJob(receipt, rpc) == ResolveReceipt(receipt, ReceiptViewOf(receipt.hash), rpc)

---------------------------------------------------------------------------
(* The indexing loop of one network *)

\* what the node may answer to the "latest finalized block" query
LatestAnswers == {[ok |-> TRUE, height |-> h] : h \in Heads} \cup {[ok |-> FALSE, height |-> 0]}

FetchRpcs ==
    {[latestOk |-> a.ok, latest |-> a.height, failChanges |-> fc, failHeader |-> fh, iter |-> it] :
        a \in LatestAnswers, fc \in SUBSET FlakyChanges, fh \in SUBSET FlakyHeaders,
        it \in AllIterOrders}

\* what the node may answer to the requests of one process_near_job call
ResolveRpcs ==
    {[receiptOk |-> r, entityOk |-> e, version |-> entity_version] : r \in BOOLEAN, e \in BOOLEAN}

\* statuses the Push Sink answers with
SinkAnswers == {200, 503}

Is2xx(status) == status \in 200..299

NotFetched == [input |-> NoneCursor, latestOk |-> FALSE, latest |-> 0, clean |-> FALSE,
               version |-> 0,
               result |-> FetchResult("Idle", << >>, NoneCursor, {}, {})]

\* no process_near_job call is in progress
NotResolved == [called |-> FALSE]

NoRun == [input |-> NoneCursor, latest |-> 0, jobs |-> << >>, cursor |-> NoneCursor, valid |-> FALSE]

JobHeights(jobs) == {jobs[i].block_height : i \in 1..Len(jobs)}

Init ==
    /\ overflow_checks \in BOOLEAN
    /\ pc = "Fetching"
    /\ cursor = NoneCursor
    /\ persisted = NoneCursor
    /\ fetched = NotFetched
    /\ next_job = 1
    /\ batch = << >>
    /\ send_idx = 1
    /\ acked = {}
    /\ send_failed = FALSE
    /\ passes = 0
    /\ prev_queried = {}
    /\ prev_max_job = -1
    /\ last_clean = NoRun
    /\ resolved = NotResolved
    /\ outcomes = << >>
    /\ save_failures = 0
    /\ entity_version = 0

\* Fetching: one call of fetch with the cursor the loop holds
Fetch ==
    /\ pc = "Fetching"
    /\ passes < MaxPasses
    /\ \E rpc \in FetchRpcs :
         LET result == FetchNearJobs(cursor, rpc, overflow_checks)
             clean == /\ rpc.latestOk
                      /\ result.status = "Ok"
                      /\ result.queried \cap rpc.failChanges = {}
         IN  /\ fetched' = [input |-> cursor, latestOk |-> rpc.latestOk, latest |-> rpc.latest,
                            clean |-> clean, version |-> entity_version, result |-> result]
             /\ pc' = CASE result.status = "Ok"    -> "Resolving"
                        [] result.status = "Panic" -> "Panicked"
                        [] OTHER                   -> "Fetching"
             /\ last_clean' = IF fetched.clean /\ fetched.input = cursor
                              THEN [input |-> fetched.input, latest |-> fetched.latest,
                                    jobs |-> fetched.result.jobs,
                                    cursor |-> fetched.result.cursor, valid |-> TRUE]
                              ELSE last_clean
    /\ next_job' = 1
    /\ batch' = << >>
    /\ send_idx' = 1
    /\ acked' = {}
    /\ send_failed' = FALSE
    /\ resolved' = NotResolved
    /\ outcomes' = << >>
    /\ save_failures' = 0
    /\ UNCHANGED << overflow_checks, cursor, persisted, passes, prev_queried, prev_max_job,
                    entity_version >>

\* mutant: an error of resolve ends the pass, which is fetched again
ResolveAbortOnErr ==
    /\ pc = "Resolving"
    /\ next_job <= Len(fetched.result.jobs)
    /\ \E rpc \in ResolveRpcs :
         LET job == fetched.result.jobs[next_job]
             result == ProcessNearJob(job, rpc)
         IN  /\ batch' = IF result.status = "Some"
                         THEN Append(batch, [job |-> job, payload |-> result.value[1]])
                         ELSE batch
             /\ pc' = CASE result.status = "Panic" -> "Panicked"
                        [] result.status = "Err"   -> "Fetching"
                        [] OTHER                   -> "Resolving"
             /\ resolved' = [called |-> TRUE, job |-> job, view |-> ReceiptViewOf(job.hash),
                              receipt_ok |-> rpc.receiptOk, result |-> result]
             /\ outcomes' = Append(outcomes, result.status)
    /\ next_job' = next_job + 1
    /\ UNCHANGED << overflow_checks, cursor, persisted, fetched, send_idx, acked,
                    send_failed, passes, prev_queried, prev_max_job, last_clean,
                    save_failures, entity_version >>

\* Resolving: resolve of the next job; an error drops the job
Resolve ==
    /\ pc = "Resolving"
    /\ next_job <= Len(fetched.result.jobs)
    /\ \E rpc \in ResolveRpcs :
         LET job == fetched.result.jobs[next_job]
             result == ProcessNearJob(job, rpc)
         IN  /\ batch' = IF result.status = "Some"
                         THEN Append(batch, [job |-> job, payload |-> result.value[1]])
                         ELSE batch
             /\ pc' = IF result.status = "Panic" THEN "Panicked" ELSE "Resolving"
             /\ resolved' = [called |-> TRUE, job |-> job, view |-> ReceiptViewOf(job.hash),
                              receipt_ok |-> rpc.receiptOk, result |-> result]
             /\ outcomes' = Append(outcomes, result.status)
    /\ next_job' = next_job + 1
    /\ UNCHANGED << overflow_checks, cursor, persisted, fetched, send_idx, acked,
                    send_failed, passes, prev_queried, prev_max_job, last_clean,
                    save_failures, entity_version >>

FinishResolving ==
    /\ pc = "Resolving"
    /\ next_job > Len(fetched.result.jobs)
    /\ pc' = "Sending"
    /\ resolved' = NotResolved
    /\ UNCHANGED << overflow_checks, cursor, persisted, fetched, next_job, batch, send_idx,
                    acked, send_failed, passes, prev_queried, prev_max_job, last_clean,
                    outcomes, save_failures, entity_version >>

\* mutant: a failed send is logged and the loop moves on to the next payload
SendSkipFailed ==
    /\ pc = "Sending"
    /\ send_idx <= Len(batch)
    /\ \E status \in SinkAnswers :
         /\ acked' = IF Is2xx(status) THEN acked \cup {send_idx} ELSE acked
         /\ send_idx' = send_idx + 1
         /\ send_failed' = (send_failed \/ ~Is2xx(status))
    /\ UNCHANGED << overflow_checks, pc, cursor, persisted, fetched, next_job, batch, passes,
                    prev_queried, prev_max_job, last_clean, resolved, outcomes, save_failures,
                    entity_version >>

\* Sending: one payload per request; a failed request retries the batch from its start
Send ==
    /\ pc = "Sending"
    /\ send_idx <= Len(batch)
    /\ \E status \in SinkAnswers :
         IF Is2xx(status)
         THEN /\ acked' = acked \cup {send_idx}
              /\ send_idx' = send_idx + 1
              /\ send_failed' = send_failed
         ELSE /\ acked' = acked
              /\ send_idx' = 1
              /\ send_failed' = TRUE
    /\ UNCHANGED << overflow_checks, pc, cursor, persisted, fetched, next_job, batch, passes,
                    prev_queried, prev_max_job, last_clean, resolved, outcomes, save_failures,
                    entity_version >>

FinishSending ==
    /\ pc = "Sending"
    /\ send_idx > Len(batch)
    /\ pc' = "Persisting"
    /\ UNCHANGED << overflow_checks, cursor, persisted, fetched, next_job, batch, send_idx,
                    acked, send_failed, passes, prev_queried, prev_max_job, last_clean,
                    resolved, outcomes, save_failures, entity_version >>

\* Persisting: save of the new cursor succeeds
Persist ==
    /\ pc = "Persisting"
    /\ persisted' = fetched.result.cursor
    /\ cursor' = fetched.result.cursor
    /\ passes' = passes + 1
    /\ prev_queried' = prev_queried \cup fetched.result.queried
    /\ prev_max_job' = Max({prev_max_job} \cup JobHeights(fetched.result.jobs))
    /\ last_clean' = NoRun
    /\ pc' = "Fetching"
    /\ UNCHANGED << overflow_checks, fetched, next_job, batch, send_idx, acked, send_failed,
                    resolved, outcomes, save_failures, entity_version >>

\* mutant: after a failed save the loop starts the pass over
PersistFailsRefetch ==
    /\ pc = "Persisting"
    /\ save_failures < MaxSaveFailures
    /\ save_failures' = save_failures + 1
    /\ pc' = "Fetching"
    /\ UNCHANGED << overflow_checks, cursor, persisted, fetched, next_job, batch, send_idx,
                    acked, send_failed, passes, prev_queried, prev_max_job, last_clean,
                    resolved, outcomes, entity_version >>

\* Persisting: save fails; the loop stays in Persisting and saves again
PersistFails ==
    /\ pc = "Persisting"
    /\ save_failures < MaxSaveFailures
    /\ save_failures' = save_failures + 1
    /\ UNCHANGED << overflow_checks, pc, cursor, persisted, fetched, next_job, batch, send_idx,
                    acked, send_failed, passes, prev_queried, prev_max_job, last_clean,
                    resolved, outcomes, entity_version >>

\* the process stops (shutdown signal, or the operator after a panic)
Shutdown ==
    /\ pc # "Stopped"
    /\ pc' = "Stopped"
    /\ fetched' = NotFetched
    /\ next_job' = 1
    /\ batch' = << >>
    /\ send_idx' = 1
    /\ acked' = {}
    /\ send_failed' = FALSE
    /\ last_clean' = IF fetched.clean
                     THEN [input |-> fetched.input, latest |-> fetched.latest,
                           jobs |-> fetched.result.jobs,
                           cursor |-> fetched.result.cursor, valid |-> TRUE]
                     ELSE last_clean
    /\ resolved' = NotResolved
    /\ outcomes' = << >>
    /\ save_failures' = 0
    /\ UNCHANGED << overflow_checks, cursor, persisted, passes, prev_queried, prev_max_job,
                    entity_version >>

\* the process starts: the loop loads the cursor from the Cursor Store
Start ==
    /\ pc = "Stopped"
    /\ cursor' = persisted
    /\ pc' = "Fetching"
    /\ UNCHANGED << overflow_checks, persisted, fetched, next_job, batch, send_idx, acked,
                    send_failed, passes, prev_queried, prev_max_job, last_clean,
                    resolved, outcomes, save_failures, entity_version >>

Next ==
    \/ Fetch
    \/ Resolve
    \/ FinishResolving
    \/ Send
    \/ FinishSending
    \/ Persist
    \/ PersistFails
    \/ Shutdown
    \/ Start

Spec == Init /\ [][Next]_vars

---------------------------------------------------------------------------
(* process_near_job over the receipts of the catalogue: a pass that starts
   with two jobs already fetched *)

\* the height the fetch of such a pass ended at
ResolveHead == 50

\* the job resolved next to each receipt of the catalogue
Companion == "update_case/good"

JobAt(hash, height) == NearReceipt(hash, height, TimestampNanosec(height))

FetchedJobs ==
    {<< JobAt(c.hash, 10), JobAt(Companion, 20) >> : c \in Catalogue}
    \cup {<< JobAt(Companion, 10), JobAt(c.hash, 20) >> : c \in Catalogue}
    \cup {<< JobAt("missing", 10), JobAt(Companion, 20) >>}

\* an entity of the contract changes on the chain
EntitiesChange ==
    /\ entity_version < MaxVersion
    /\ entity_version' = entity_version + 1
    /\ UNCHANGED << overflow_checks, pc, cursor, persisted, fetched, next_job, batch, send_idx,
                    acked, send_failed, passes, prev_queried, prev_max_job, last_clean,
                    resolved, outcomes, save_failures >>

InitResolve ==
    /\ overflow_checks = TRUE
    /\ pc = "Resolving"
    /\ cursor = NoneCursor
    /\ persisted = NoneCursor
    /\ entity_version \in 0..(MaxVersion - 1)
    /\ \E jobs \in FetchedJobs :
         fetched = [input |-> NoneCursor, latestOk |-> TRUE, latest |-> ResolveHead,
                    clean |-> TRUE, version |-> entity_version,
                    result |-> FetchResult("Ok", jobs, Block(ResolveHead), 0..ResolveHead,
                                           JobHeights(jobs))]
    /\ next_job = 1
    /\ batch = << >>
    /\ send_idx = 1
    /\ acked = {}
    /\ send_failed = FALSE
    /\ passes = 0
    /\ prev_queried = {}
    /\ prev_max_job = -1
    /\ last_clean = NoRun
    /\ resolved = NotResolved
    /\ outcomes = << >>
    /\ save_failures = 0

NextResolve ==
    \/ Resolve
    \/ FinishResolving
    \/ Send
    \/ FinishSending
    \/ Persist
    \/ PersistFails
    \/ EntitiesChange

SpecResolve == InitResolve /\ [][NextResolve]_vars

---------------------------------------------------------------------------
(* Properties *)

InputHeight == UnwrapOrDefault(fetched.input)

FetchOk == fetched.result.status = "Ok"

\* C1: a successful fetch returns Block(h) with h at least the height of the cursor it
\* was given, whatever finalized height the node reported, and the cursor the loop
\* holds from one fetch to the next never decreases.
C1_FetchMonotonic ==
    [][/\ fetched'.result.status = "Ok" =>
            /\ fetched'.result.cursor.tag = "Block"
            /\ fetched'.result.cursor.height >= UnwrapOrDefault(fetched'.input)
       /\ UnwrapOrDefault(cursor') >= UnwrapOrDefault(cursor)
       /\ UnwrapOrDefault(persisted') >= UnwrapOrDefault(persisted)]_vars

\* a fetch succeeded although the node reported a finalized height below the cursor,
\* and its cursor was persisted
C1_Witness ==
    /\ FetchOk
    /\ fetched.latestOk
    /\ fetched.latest < InputHeight
    /\ persisted = fetched.result.cursor
    /\ passes = 2

\* the pass whose outcome is in fetched is the one the loop is working on
PassPending == pc \in {"Resolving", "Sending", "Persisting"}

\* C2: the cursor of a pass is persisted only when every job of the pass was resolved
\* and every payload of its batch was acknowledged by the Push Sink, the last run
\* through the batch having had no failed send; nothing else writes the Cursor Store.
C2_NoPrematureAdvancement ==
    [][/\ passes' # passes =>
            /\ pc = "Persisting"
            /\ next_job > Len(fetched.result.jobs)
            /\ send_idx > Len(batch)
            /\ acked = 1..Len(batch)
            /\ persisted' = fetched.result.cursor
       /\ persisted' # persisted => passes' # passes]_vars

\* the cursor of a pass with a batch of three payloads was persisted after a send of
\* the batch had failed
C2_Witness ==
    /\ passes = 2
    /\ pc = "Fetching"
    /\ FetchOk
    /\ persisted = fetched.result.cursor
    /\ Len(batch) = 3
    /\ send_failed
    /\ acked = {1, 2, 3}

\* C3: a pass given Block(c) queries only heights above c, and queries no height that
\* an earlier pass of the chain has queried.
C3_CursorExclusive ==
    (PassPending /\ fetched.input.tag = "Block") =>
        /\ \A h \in fetched.result.queried : h > fetched.input.height
        /\ fetched.result.queried \cap prev_queried = {}

\* C4: the cursor of a successful pass is the greatest height it queried, or the input
\* height when it queried none.
C4_CursorIsRightmostQueried ==
    FetchOk =>
        \/ /\ fetched.result.queried = {}
           /\ fetched.result.cursor = Block(InputHeight)
        \/ /\ fetched.result.cursor.height \in fetched.result.queried
           /\ \A h \in fetched.result.queried : h <= fetched.result.cursor.height

\* C5: when the latest-finalized-height query succeeded the pass returns Ok: a failed
\* change-set or header query of one block does not make it return an error.
C5_PerBlockFailureIsolated ==
    (fetched.result.status \in {"Ok", "Err"} /\ fetched.latestOk) => FetchOk

\* C6: a pass whose latest-finalized-height query failed returns an error, has queried
\* no change-set and no header, carries no jobs and no cursor, and leaves the loop in
\* Fetching with the cursor it held, which is the persisted one.
C6_LatestFailureAborts ==
    (fetched.result.status # "Idle" /\ ~fetched.latestOk) =>
        /\ fetched.result = FetchResult("Err", << >>, NoneCursor, {}, {})
        /\ pc = "Fetching"
        /\ cursor = fetched.input
        /\ persisted = fetched.input

\* the latest-finalized-height query failed in a pass that followed a persisted one
C6_Witness ==
    /\ fetched.result.status = "Err"
    /\ ~fetched.latestOk
    /\ fetched.input.tag = "Block"
    /\ passes = 1

\* C7: with finalized height H >= c a successful pass from c returns
\* Block(min(H, c + NEAR_PAGE_SIZE)); from None with H = 50 and no change in blocks
\* 0..50 it returns Block(50) and no jobs; with H = c it returns Block(c) and no jobs
\* and queries no block.
C7_ReferenceWindow ==
    (FetchOk /\ fetched.latest >= InputHeight) =>
        /\ fetched.result.cursor = Block(min(fetched.latest, InputHeight + NEAR_PAGE_SIZE))
        /\ (/\ fetched.input = NoneCursor
            /\ fetched.latest = 50
            /\ \A h \in 0..50 : StateChangesAt(h) = << >>) =>
                /\ fetched.result.cursor = Block(50)
                /\ fetched.result.jobs = << >>
        /\ fetched.latest = InputHeight =>
                /\ fetched.result.cursor = Block(InputHeight)
                /\ fetched.result.jobs = << >>
                /\ fetched.result.queried = {}

\* a pass from Block(c) with H above c + NEAR_PAGE_SIZE, after a pass from None with H = 50
C7_Witness ==
    /\ FetchOk
    /\ fetched.input = Block(50)
    /\ fetched.latest = 1300
    /\ fetched.result.cursor = Block(650)
    /\ persisted = Block(50)

\* C8: a pass queries at most NEAR_PAGE_SIZE change-sets and a successful pass returns
\* a cursor at most NEAR_PAGE_SIZE above the input height.
C8_PageBound ==
    /\ Cardinality(fetched.result.queried) <= NEAR_PAGE_SIZE
    /\ FetchOk => fetched.result.cursor.height <= InputHeight + NEAR_PAGE_SIZE

\* a pass whose window was cut: the chain head is more than a page above the cursor
C8_Witness ==
    /\ FetchOk
    /\ fetched.latest > InputHeight + NEAR_PAGE_SIZE
    /\ Cardinality(fetched.result.queried) = NEAR_PAGE_SIZE

\* C9: two failure-free fetches with the same cursor and the same finalized height
\* return the same cursor and the same sequence of jobs.
C9_IdempotentRefetch ==
    (/\ fetched.clean
     /\ last_clean.valid
     /\ last_clean.input = fetched.input
     /\ last_clean.latest = fetched.latest) =>
        /\ fetched.result.cursor = last_clean.cursor
        /\ fetched.result.jobs = last_clean.jobs

NonDecreasing(heights) ==
    \A i, j \in 1..Len(heights) : i <= j => heights[i] <= heights[j]

\* C10: the jobs of a pass are in non-decreasing block height, no job of a pass is below
\* a job of an earlier pass of the chain, and the batch keeps that order.
C10_Ordering ==
    /\ NonDecreasing([i \in 1..Len(fetched.result.jobs) |-> fetched.result.jobs[i].block_height])
    /\ NonDecreasing([i \in 1..Len(batch) |-> batch[i].job.block_height])
    /\ PassPending =>
          /\ \A i \in 1..Len(fetched.result.jobs) :
                fetched.result.jobs[i].block_height >= prev_max_job
          /\ \A i \in 1..Len(batch) : batch[i].job.block_height >= prev_max_job

\* a later pass of the chain found jobs in several blocks, after a pass that found some
C10_Witness ==
    /\ PassPending
    /\ prev_max_job >= 0
    /\ Cardinality(JobHeights(fetched.result.jobs)) >= 2
    /\ Len(batch) >= 2
    /\ batch[1].job.block_height < batch[2].job.block_height

---------------------------------------------------------------------------
(* process_near_job *)

\* the receipt was retrieved and its first action is a function call
CallRetrieved == /\ resolved.called
                 /\ resolved.receipt_ok
                 /\ resolved.view.found
                 /\ resolved.view.receipt = "Action"
                 /\ Len(resolved.view.actions) > 0
                 /\ resolved.view.actions[1].action = "FunctionCall"

CalledMethod == resolved.view.actions[1].method_name

CalledArgs == resolved.view.actions[1].args

JobsOfPass == fetched.result.jobs

\* C11: a job whose receipt was retrieved and whose method is neither
\* ft_on_transfer nor the name of an event resolves to Ok(None) without any
\* entity query, adds nothing to the batch, and leaves the pass resolving.
C11_UnknownMethodIsNone ==
    (/\ CallRetrieved
     /\ CalledMethod # "ft_on_transfer"
     /\ ~ParseEventName(CalledMethod).ok)
    => /\ resolved.result.status = "None"
       /\ resolved.result.value = NoPayload
       /\ resolved.result.queries = << >>
       /\ pc = "Resolving"
       /\ \A i \in 1..Len(batch) : batch[i].job # resolved.job

\* the first job called storage_deposit, and the job after it was resolved to a payload
C11_Witness ==
    /\ pc = "Resolving"
    /\ Len(outcomes) = 2
    /\ outcomes[1] = "None"
    /\ JobsOfPass[1].hash = "storage_deposit/good"
    /\ resolved.called
    /\ resolved.job = JobsOfPass[2]
    /\ resolved.result.status = "Some"
    /\ Len(batch) = 1

\* the args are JSON and hold the field as a string
HasString(args, field) ==
    /\ args.valid
    /\ field \in DOMAIN args.fields
    /\ args.fields[field].type = "string"

\* C12: a job whose method is ft_on_transfer is classified as ActivateReporter:
\* it is never skipped as an unknown method, its only entity query is the
\* reporter looked up by the sender_id account, and when that lookup succeeds
\* the result is one payload whose event.name is ActivateReporter.
C12_TokenCallbackActivates ==
    (CallRetrieved /\ CalledMethod = "ft_on_transfer")
    => /\ resolved.result.status \in {"Some", "Err"}
       /\ IF HasString(CalledArgs, "sender_id")
          THEN resolved.result.queries =
                  << [kind |-> "Reporter", by |-> "account",
                      key |-> CalledArgs.fields["sender_id"].value] >>
          ELSE resolved.result.queries = << >> /\ resolved.result.status = "Err"
       /\ resolved.result.status = "Some"
            => /\ Len(resolved.result.value) = 1
               /\ resolved.result.value[1].event.name = "ActivateReporter"
               /\ resolved.result.value[1].data.kind = "Reporter"

\* an ft_on_transfer job whose reporter lookup succeeded
C12_Witness ==
    /\ CallRetrieved
    /\ CalledMethod = "ft_on_transfer"
    /\ HasString(CalledArgs, "sender_id")
    /\ resolved.result.status = "Some"
    /\ resolved.result.value[1].event.name = "ActivateReporter"
    /\ batch[Len(batch)].payload = resolved.result.value[1]

\* the events process_near_job does not forward
Unforwarded == {"ConfirmAddress", "ConfirmAsset", "UpdateStakeConfiguration",
                "UpdateRewardConfiguration", "SetAuthority", "Initialize"}

\* C13: a job classified as ConfirmAddress, ConfirmAsset,
\* UpdateStakeConfiguration, UpdateRewardConfiguration, SetAuthority or
\* Initialize resolves to Ok(None) with no entity query, whatever its args
\* are: JSON or not, with or without the fields the other events read.
C13_UnforwardedIsNone ==
    (/\ CallRetrieved
     /\ CalledMethod # "ft_on_transfer"
     /\ ParseEventName(CalledMethod).ok
     /\ ParseEventName(CalledMethod).name \in Unforwarded)
    => /\ resolved.result.status = "None"
       /\ resolved.result.value = NoPayload
       /\ resolved.result.queries = << >>

\* a confirm_asset job whose args are not JSON resolved to None, and the pass goes on
C13_Witness ==
    /\ CallRetrieved
    /\ CalledMethod = "confirm_asset"
    /\ ~CalledArgs.valid
    /\ resolved.result.status = "None"
    /\ pc = "Resolving"

\* the event a retrieved call is classified as ("" when it is none)
Classified ==
    IF CalledMethod = "ft_on_transfer" THEN "ActivateReporter"
    ELSE ParseEventName(CalledMethod).name

IdOfArgs == UuidString(ParseU128(CalledArgs.fields["id"].value).value)

\* the entity each forwarded event is resolved with
SelectedEntity ==
    CASE Classified \in {"CreateReporter", "UpdateReporter", "DeactivateReporter", "Unstake"} ->
            [kind |-> "Reporter", by |-> "id", key |-> IdOfArgs]
      [] Classified = "ActivateReporter" ->
            [kind |-> "Reporter", by |-> "account", key |-> CalledArgs.fields["sender_id"].value]
      [] Classified \in {"CreateCase", "UpdateCase"} ->
            [kind |-> "Case", by |-> "id", key |-> IdOfArgs]
      [] Classified \in {"CreateAddress", "UpdateAddress"} ->
            [kind |-> "Address", by |-> "address", key |-> CalledArgs.fields["address"].value]
      [] Classified \in {"CreateAsset", "UpdateAsset"} ->
            [kind |-> "Asset", by |-> "address_id",
             key |-> << CalledArgs.fields["address"].value, CalledArgs.fields["id"].value >>]

\* C14: each forwarded event is resolved with the entity of its own family:
\* the reporter events by the UUID of the decimal id (ActivateReporter by the
\* sender_id account), the case events by the UUID of the id, the address
\* events by address, the asset events by address and id; the payload carries
\* the answer to that query under the event's own name, never another family.
C14_EntitySelection ==
    (CallRetrieved /\ resolved.result.queries # << >>)
    => /\ resolved.result.queries = << SelectedEntity >>
       /\ resolved.result.status = "Some"
            => /\ resolved.result.value[1].event.name = Classified
               /\ resolved.result.value[1].data.kind = SelectedEntity.kind
               /\ resolved.result.value[1].data.key = SelectedEntity.key

\* a create_case job with the id "7" resolved to a CreateCase payload with that case
C14_Witness ==
    /\ CallRetrieved
    /\ CalledMethod = "create_case"
    /\ CalledArgs.fields["id"] = StrArg("7")
    /\ resolved.result.status = "Some"
    /\ resolved.result.value[1].event.name = "CreateCase"
    /\ resolved.result.value[1].data.kind = "Case"
    /\ resolved.result.value[1].data.key = "00000000-0000-0000-0000-000000000007"

\* an update_asset job resolved to a payload with the asset of its address and id
C14_AssetWitness ==
    /\ CallRetrieved
    /\ CalledMethod = "update_asset"
    /\ resolved.result.status = "Some"
    /\ resolved.result.value[1].data.kind = "Asset"
    /\ resolved.result.value[1].data.key = << "mallory.near", "7" >>

\* C15: whenever resolve adds a payload to the batch, its data is the answer
\* to the one entity query of that call, made after the receipt of the job was
\* retrieved, and it is the entity as it is on the chain at that moment: never
\* older than the fetch that discovered the job.
C15_SnapshotFreshness ==
    [][Len(batch') > Len(batch)
        => LET added == batch'[Len(batch')]
               call == resolved'
           IN  /\ call.job = added.job
               /\ \E i \in 1..Len(JobsOfPass) : JobsOfPass[i] = added.job
               /\ call.receipt_ok /\ call.view.found
               /\ Len(call.result.queries) = 1
               /\ added.payload.data.kind = call.result.queries[1].kind
               /\ added.payload.data.key = call.result.queries[1].key
               /\ added.payload.data.version = entity_version
               /\ added.payload.data.version >= fetched.version]_vars

\* the entities changed after the fetch and again between two resolve calls:
\* each payload carries the version of its own call
C15_Witness ==
    /\ Len(batch) = 2
    /\ batch[1].payload.data.version > fetched.version
    /\ batch[2].payload.data.version > batch[1].payload.data.version

---------------------------------------------------------------------------
(* the Cursor Store *)

\* C16: while the loop of a running process is in Persisting, the fetched
\* pass, the resolved batch and the deliveries stay as they are: a failed save
\* is followed by another save of the same cursor, and the loop is back in
\* Fetching only by a save that stored that cursor.
C16_PersistRetry ==
    [][(pc = "Persisting" /\ pc' # "Stopped")
        => /\ fetched' = fetched
           /\ batch' = batch
           /\ outcomes' = outcomes
           /\ acked' = acked
           /\ \/ /\ pc' = "Persisting"
                 /\ save_failures' = save_failures + 1
                 /\ persisted' = persisted
                 /\ cursor' = cursor
                 /\ passes' = passes
              \/ /\ pc' = "Fetching"
                 /\ save_failures' = save_failures
                 /\ persisted' = fetched.result.cursor
                 /\ cursor' = fetched.result.cursor
                 /\ passes' = passes + 1]_vars

\* save failed twice and then stored the cursor of a delivered batch
C16_Witness ==
    /\ pc = "Fetching"
    /\ save_failures = 2
    /\ passes = 1
    /\ persisted = fetched.result.cursor
    /\ persisted # NoneCursor
    /\ Len(batch) >= 1
    /\ Len(outcomes) = Len(JobsOfPass)

---------------------------------------------------------------------------
(* resolve errors inside a pass *)

\* the arguments the classified event needs are missing, not strings, or the id
\* is not a decimal u128
ArgsUnusable ==
    /\ CallRetrieved
    /\ CASE Classified \in {"CreateReporter", "UpdateReporter", "DeactivateReporter", "Unstake",
                            "CreateCase", "UpdateCase"} ->
                ~(HasString(CalledArgs, "id") /\ ParseU128(CalledArgs.fields["id"].value).ok)
         [] Classified = "ActivateReporter" -> ~HasString(CalledArgs, "sender_id")
         [] Classified \in {"CreateAddress", "UpdateAddress"} -> ~HasString(CalledArgs, "address")
         [] Classified \in {"CreateAsset", "UpdateAsset"} ->
                ~(HasString(CalledArgs, "address") /\ HasString(CalledArgs, "id"))
         [] OTHER -> FALSE

\* the jobs of the pass resolved so far whose outcome is a payload, in order
KeptJobs ==
    LET kept == SelectSeq([i \in 1..Len(outcomes) |-> i], LAMBDA i : outcomes[i] = "Some")
    IN  [k \in 1..Len(kept) |-> JobsOfPass[kept[k]]]

PassEnded == pc \in {"Sending", "Persisting"} \/ (pc = "Fetching" /\ passes > 0)

\* C17: a job whose receipt request fails, whose needed argument is missing or
\* not a string, whose id is not a decimal u128, or whose entity query fails
\* resolves to an error; the error leaves the pass resolving, only that job is
\* missing from the batch, every job of the pass is resolved, and the pass
\* ends with the other payloads delivered and the cursor of the fetch stored.
C17_ResolveErrorIsolated ==
    /\ (resolved.called /\ (~resolved.receipt_ok \/ ~resolved.view.found \/ ArgsUnusable))
         => resolved.result.status = "Err"
    /\ (resolved.called /\ resolved.result.status = "Err") => pc = "Resolving"
    /\ Len(batch) = Len(KeptJobs)
    /\ \A k \in 1..Len(batch) : batch[k].job = KeptJobs[k]
    /\ (PassEnded /\ pc # "Panicked") => Len(outcomes) = Len(JobsOfPass)
    /\ (pc = "Fetching" /\ passes > 0)
         => /\ persisted = fetched.result.cursor
            /\ acked = 1..Len(batch)

\* the first job had an id that is no decimal number: it was dropped, the
\* second job was resolved and delivered, and the cursor of the fetch was stored
C17_Witness ==
    /\ pc = "Fetching"
    /\ passes = 1
    /\ JobsOfPass[1].hash = "create_reporter/badid"
    /\ outcomes = << "Err", "Some" >>
    /\ Len(batch) = 1
    /\ batch[1].job = JobsOfPass[2]
    /\ acked = {1}
    /\ persisted = Block(ResolveHead)

\* the entity query of the second job failed: it was dropped and the first payload is kept
C17_EntityFailureWitness ==
    /\ pc = "Persisting"
    /\ outcomes = << "Some", "Err" >>
    /\ JobsOfPass[2].hash = "update_address/good"
    /\ Len(batch) = 1

---------------------------------------------------------------------------
(* the payload of a job *)

\* C18: a process_near_job call that does not fail returns None or exactly
\* one payload; the payload's event has the name the call was classified as,
\* the base58 text of the job's receipt hash as tx_hash, tx_index 0, and the
\* timestamp fetch stored in the job (that of the job's block).
C18_PayloadShape ==
    (resolved.called /\ resolved.result.status \in {"Some", "None"})
    => IF resolved.result.status = "None"
       THEN resolved.result.value = NoPayload
       ELSE /\ Len(resolved.result.value) = 1
            /\ CallRetrieved
            /\ resolved.result.value[1].event =
                  [name |-> Classified,
                   tx_hash |-> [base58 |-> resolved.job.hash],
                   tx_index |-> 0,
                   timestamp |-> resolved.job.timestamp]
            /\ resolved.job.timestamp = TimestampNanosec(resolved.job.block_height)

\* the second job of a pass, found in block 20, resolved to one payload
C18_Witness ==
    /\ resolved.called
    /\ resolved.result.status = "Some"
    /\ resolved.job = JobsOfPass[2]
    /\ resolved.job.block_height = 20
    /\ resolved.result.value[1].event.timestamp = TimestampNanosec(20)
    /\ resolved.result.value[1].event.tx_hash = [base58 |-> "unstake/good"]
    /\ resolved.result.value[1].event.name = "Unstake"

---------------------------------------------------------------------------
(* the chain of passes *)

\* C19: every height from 0 (the cursor None) below the persisted cursor was
\* queried by one of the persisted passes, and every height from the input
\* cursor below the cursor a successful fetch returns was queried by that
\* fetch: the chain of passes leaves no height out, the last block of a full
\* window of 600 and the first block of the next one included.
C19_NoGaps ==
    /\ \A h \in 0..(UnwrapOrDefault(persisted) - 1) : h \in prev_queried
    /\ (PassPending /\ FetchOk)
         => \A h \in InputHeight..(UnwrapOrDefault(fetched.result.cursor) - 1) :
                h \in fetched.result.queried

\* two full windows were persisted: 0..599 and 600..1199
C19_Witness ==
    /\ passes = 2
    /\ persisted = Block(2 * NEAR_PAGE_SIZE)
    /\ fetched.input = Block(NEAR_PAGE_SIZE)
    /\ {NEAR_PAGE_SIZE - 1, NEAR_PAGE_SIZE, 2 * NEAR_PAGE_SIZE - 1} \subseteq prev_queried

\* C20: the cursor a successful fetch returns is at most the latest finalized
\* height the node reported to that fetch, and no change-set query of the
\* fetch is above that height, whatever the input cursor is.
C20_CursorWithinFinalized ==
    (fetched.latestOk /\ FetchOk)
    => /\ UnwrapOrDefault(fetched.result.cursor) <= fetched.latest
       /\ \A h \in fetched.result.queried : h <= fetched.latest

---------------------------------------------------------------------------
(* the jobs of a fetch *)

\* the hashes get_hash_from_cause gives for the state changes of a block
CauseHashes(height) ==
    {get_hash_from_cause(StateChangesAt(height)[i]) : i \in 1..Len(StateChangesAt(height))}

\* the positions in the jobs of the pass that hold a job of a block
JobsOfBlock(height) == {i \in 1..Len(JobsOfPass) : JobsOfPass[i].block_height = height}

\* C21: in the result of a successful fetch every block that has jobs has
\* exactly one job for each distinct hash of its state changes, with the
\* block's height and the block's timestamp; no (hash, height) comes twice;
\* the header was asked for exactly the blocks that have jobs, never for a
\* block without state changes; and when no change-set query failed, every
\* queried block with state changes has its jobs.
C21_PerBlockDedup ==
    FetchOk
    => /\ \A i, j \in 1..Len(JobsOfPass) :
            (/\ JobsOfPass[i].hash = JobsOfPass[j].hash
             /\ JobsOfPass[i].block_height = JobsOfPass[j].block_height) => i = j
       /\ \A i \in 1..Len(JobsOfPass) :
            /\ JobsOfPass[i].block_height \in fetched.result.queried
            /\ JobsOfPass[i].timestamp = TimestampNanosec(JobsOfPass[i].block_height)
       /\ \A b \in JobHeights(JobsOfPass) :
            /\ {JobsOfPass[i].hash : i \in JobsOfBlock(b)} = CauseHashes(b)
            /\ Cardinality(JobsOfBlock(b)) = Cardinality(CauseHashes(b))
       /\ fetched.result.headers = JobHeights(JobsOfPass)
       /\ \A b \in fetched.result.headers : StateChangesAt(b) # << >>
       /\ fetched.clean
            => \A b \in ChangedBlocks :
                  b \in fetched.result.queried => b \in JobHeights(JobsOfPass)

\* block 60 has three state changes, two of them caused by the same receipt:
\* the fetch returned two jobs for it
C21_Witness ==
    /\ FetchOk
    /\ pc = "Resolving"
    /\ Len(StateChangesAt(60)) = 3
    /\ Cardinality(JobsOfBlock(60)) = 2
    /\ {JobsOfPass[i].hash : i \in JobsOfBlock(60)} = {"rA", "rB"}
    /\ 61 \in fetched.result.queried
    /\ 61 \notin fetched.result.headers

\* C22: the hash of every job a fetch returns is the tx_hash or receipt_hash
\* of a state change of its block caused by TransactionProcessing or
\* ReceiptProcessing, and is never the default (all-zero) hash.
C22_JobsReferenceCauses ==
    FetchOk
    => \A i \in 1..Len(JobsOfPass) :
          /\ JobsOfPass[i].hash # DefaultHash
          /\ \E k \in 1..Len(StateChangesAt(JobsOfPass[i].block_height)) :
                LET change == StateChangesAt(JobsOfPass[i].block_height)[k]
                IN  /\ change.cause \in {"TransactionProcessing", "ReceiptProcessing"}
                    /\ change.hash = JobsOfPass[i].hash

---------------------------------------------------------------------------
(* the shape of a receipt *)

\* C23: for a receipt retrieved successfully process_near_job ends with a
\* value and the loop is not aborted; it returns Ok(None) when the receipt is
\* not an Action receipt or its first action is not a function call (an empty
\* action list has no first action), and otherwise classifies by the method
\* of the first action alone.
C23_FirstActionOnly ==
    (resolved.called /\ resolved.receipt_ok /\ resolved.view.found)
    => /\ resolved.result.status \in {"Some", "None", "Err"}
       /\ pc # "Panicked"
       /\ ~CallRetrieved => resolved.result.status = "None"
       /\ (CallRetrieved /\ resolved.result.status = "Some")
            => resolved.result.value[1].event.name = Classified

====
